---- MODULE Spec2Model ----
(***************************************************************************)
(* PCMP codec of the Panzer Dragoon Orta texture tools: the LZSS           *)
(* compressor (pcmp_compressor.go) and decompressor                        *)
(* (pcmp_decompressor.go), modelled as state machines over byte sequences. *)
(* Go slices are 0-indexed; the sequences here are 1-indexed, so the byte  *)
(* the code calls s[i] is s[i + 1] here.  Positions, cursors and offsets   *)
(* keep the code's 0-based values.                                         *)
(***************************************************************************)
EXTENDS Integers, Sequences, FiniteSets, TLC

VARIABLES
    pc,               \* where the run is: "start", "loop", "compressed", "padded",
                      \* "given", "decoding", "decoded"
    inputData,        \* coreCompressV1: the raw input
    outputBuffer,     \* coreCompressV1: the fixed-size output buffer
    inputPos,         \* coreCompressV1: input cursor
    outputPos,        \* coreCompressV1: output cursor
    currentFlag,      \* coreCompressV1: control byte being accumulated
    bitCount,         \* coreCompressV1: tokens flagged in the current control byte
    flagPos,          \* coreCompressV1: index of the reserved control byte
    compressedStream, \* coreCompressV1: returned stream (<<>> for nil)
    cErr,             \* coreCompressV1: returned error
    tokens,           \* history: the tokens emitted so far, in order
    container,        \* compressAndPadToPCMP: returned container (<<>> for nil);
                      \* in the header runs, the bytes handed to readPCMPHeader
    hdrIn,            \* writePCMPHeader: [u, c], the two sizes it is given
    hdrOut,           \* readPCMPHeader: [outSize, compSize, err], what it returns
    dStream,          \* lzssSimpleDecompress: compressedStream parameter
    uncompressedSize, \* lzssSimpleDecompress: uncompressedSize parameter
    outBuffer,        \* lzssSimpleDecompress: output produced so far / returned
    streamIdx,        \* lzssSimpleDecompress: stream cursor
    controlByte,      \* lzssSimpleDecompress: control byte being consumed
    bitsLeft,         \* lzssSimpleDecompress: bits left in controlByte
    dErr,             \* lzssSimpleDecompress: returned error
    dTokens           \* history: the tokens decoded so far, in order

cvars == <<inputData, outputBuffer, inputPos, outputPos, currentFlag, bitCount,
           flagPos, compressedStream, cErr, tokens>>
hvars == <<container, hdrIn, hdrOut>>
dvars == <<dStream, uncompressedSize, outBuffer, streamIdx, controlByte, bitsLeft,
           dErr, dTokens>>
vars == <<pc, cvars, hvars, dvars>>

(***************************************************************************)
(* Program constants.                                                      *)
(***************************************************************************)
maxWindowSize == 4096
maxEncodedLength == 18
minMatchLength == 3
pcmpHeaderSize == 32
outputBufferSlack == 2048
fileAlignment == 2048
pcmpDataOffset == 32

(***************************************************************************)
(* Bounds of the model.                                                    *)
(***************************************************************************)
MaxLen == 10
MaxDistinctLen == 40
MaxStreamLen == 5
MaxTarget == 6
MaxTrail == 2

Alphabet == {65, 66}

RECURSIVE SeqsUpTo(_, _)
SeqsUpTo(S, n) ==
    IF n = 0 THEN {<<>>}
    ELSE LET shorter == SeqsUpTo(S, n - 1)
         IN shorter \cup {Append(s, b) : s \in {t \in shorter : Len(t) = n - 1}, b \in S}

SmallInputs == SeqsUpTo(Alphabet, MaxLen)

(***************************************************************************)
(* Fixed-width integer helpers.                                            *)
(***************************************************************************)
RECURSIVE BitOr(_, _)
BitOr(a, b) ==
    IF a = 0 THEN b
    ELSE IF b = 0 THEN a
    ELSE (IF a % 2 = 1 \/ b % 2 = 1 THEN 1 ELSE 0) + 2 * BitOr(a \div 2, b \div 2)

RECURSIVE BitAnd(_, _)
BitAnd(a, b) ==
    IF a = 0 \/ b = 0 THEN 0
    ELSE (IF a % 2 = 1 /\ b % 2 = 1 THEN 1 ELSE 0) + 2 * BitAnd(a \div 2, b \div 2)

Shl(a, k) == a * (2 ^ k)
Shr(a, k) == a \div (2 ^ k)
Uint8(x) == x % 256
Uint16(x) == x % 65536

Zeros(n) == [i \in 1..n |-> 0]

(***************************************************************************)
(* findMatch (pcmp_compressor.go 46-77).                                   *)
(***************************************************************************)
NoMatch == [offset |-> 0, length |-> 0, found |-> FALSE]

\* a variant that finds the first occurrence instead of the last
FirstIndex(s, sep) ==
    LET n == Len(s) - Len(sep)
        hit(i) == SubSeq(s, i + 1, i + Len(sep)) = sep
    IN IF n < 0 \/ ~(\E i \in 0..n : hit(i)) THEN -1
       ELSE CHOOSE i \in 0..n : hit(i) /\ \A j \in 0..(i - 1) : ~hit(j)

\* bytes.LastIndex(s, sep): the start index of the last occurrence of sep in s,
\* -1 when there is none.  d is the distance of a start index from the last
\* candidate start index.
LastIndex(s, sep) ==
    LET n == Len(s) - Len(sep)
        hit(i) == SubSeq(s, i + 1, i + Len(sep)) = sep
    IN IF n < 0 \/ ~(\E d \in 0..n : hit(n - d)) THEN -1
       ELSE n - (CHOOSE d \in 0..n : hit(n - d) /\ \A e \in 0..(d - 1) : ~hit(n - e))

\* a variant of the loop that takes the longest candidate only
matchLongestOnly(data, currentInputPos, windowStart, window, l) ==
    IF l < minMatchLength \/ currentInputPos + l > Len(data) THEN NoMatch
    ELSE LET pattern == SubSeq(data, currentInputPos + 1, currentInputPos + l)
             idxInWindow == LastIndex(window, pattern)
         IN IF idxInWindow # -1
            THEN [offset |-> currentInputPos - (windowStart + idxInWindow),
                  length |-> l, found |-> TRUE]
            ELSE NoMatch

\* the for loop of lines 65-75, from candidate length l down
RECURSIVE matchLoop(_, _, _, _, _)
matchLoop(data, currentInputPos, windowStart, window, l) ==
    IF l < minMatchLength THEN NoMatch
    ELSE IF currentInputPos + l > Len(data)
    THEN matchLoop(data, currentInputPos, windowStart, window, l - 1)
    ELSE LET pattern == SubSeq(data, currentInputPos + 1, currentInputPos + l)
             idxInWindow == LastIndex(window, pattern)
         IN IF idxInWindow # -1
            THEN [offset |-> currentInputPos - (windowStart + idxInWindow),
                  length |-> l, found |-> TRUE]
            ELSE matchLoop(data, currentInputPos, windowStart, window, l - 1)

findMatch(data, currentInputPos, currentWindowSize, maxMatchLen) ==
    IF currentInputPos + minMatchLength > Len(data) THEN NoMatch
    ELSE LET mml == IF currentInputPos + maxMatchLen > Len(data)
                    THEN Len(data) - currentInputPos
                    ELSE maxMatchLen
         IN IF mml < minMatchLength THEN NoMatch
            ELSE LET windowStart == IF currentInputPos - currentWindowSize < 0
                                    THEN 0
                                    ELSE currentInputPos - currentWindowSize
                     window == SubSeq(data, windowStart + 1, currentInputPos)
                 IN IF Len(window) = 0 THEN NoMatch
                    ELSE matchLoop(data, currentInputPos, windowStart, window, mml)

(***************************************************************************)
(* coreCompressV1 (pcmp_compressor.go 80-177).  The locals of a call are   *)
(* the record [buf, inputPos, outputPos, currentFlag, bitCount, flagPos,   *)
(* tokens, err]; err is TRUE once the call has returned errBufferTooSmall. *)
(***************************************************************************)
\* lines 84-90: the heuristic size of the output buffer
estimatedOutputSize(n) ==
    LET e == IF n < 1024 THEN n * 2 + 128 ELSE n + outputBufferSlack
    IN IF e < 128 THEN 128 ELSE e

\* a variant of the window limit without the cap
windowUncapped(pos) == pos

\* lines 119-126: the window and match-length limits at a position
currentWindowSize(pos) == IF pos > maxWindowSize THEN maxWindowSize ELSE pos
currentMaxMatchLen(data, pos) ==
    IF Len(data) - pos > maxEncodedLength THEN maxEncodedLength ELSE Len(data) - pos

\* lines 91-105: the locals when the loop is entered
coreBegin(data) ==
    LET buf == Zeros(estimatedOutputSize(Len(data)))
    IN [buf |-> IF 0 >= Len(buf) THEN buf ELSE [buf EXCEPT ![0 + 1] = 0],
        inputPos |-> 0,
        outputPos |-> IF 0 >= Len(buf) THEN 0 ELSE 1,
        currentFlag |-> 0,
        bitCount |-> 0,
        flagPos |-> 0,
        tokens |-> <<>>,
        err |-> 0 >= Len(buf)]

\* lines 132-142 and 152-162: after bitCount++, a full control byte is patched and
\* the next one reserved
rotateFlag(st) ==
    IF st.bitCount # 8 THEN st
    ELSE LET patched == [st.buf EXCEPT ![st.flagPos + 1] = st.currentFlag]
         IN IF st.outputPos >= Len(st.buf)
            THEN [st EXCEPT !.buf = patched, !.currentFlag = 0, !.bitCount = 0,
                            !.flagPos = st.outputPos, !.err = TRUE]
            ELSE [st EXCEPT !.buf = [patched EXCEPT ![st.outputPos + 1] = 0],
                            !.outputPos = st.outputPos + 1,
                            !.currentFlag = 0,
                            !.bitCount = 0,
                            !.flagPos = st.outputPos]

\* lines 130-148: the position is encoded as a Literal
emitLiteral(data, st0) ==
    LET st == rotateFlag([st0 EXCEPT !.bitCount = @ + 1])
    IN IF st.err \/ st.outputPos >= Len(st.buf)
       THEN [st0 EXCEPT !.err = TRUE]
       ELSE [st EXCEPT
                !.buf = [st.buf EXCEPT ![st.outputPos + 1] = data[st0.inputPos + 1]],
                !.inputPos = st0.inputPos + 1,
                !.outputPos = st.outputPos + 1,
                !.tokens = Append(@, [kind |-> "Literal", offset |-> 0, length |-> 1,
                                      inPos |-> st0.inputPos, outPos |-> st.outputPos,
                                      ctl |-> st0.flagPos, bit |-> 7 - st0.bitCount])]

\* a variant of the Copy branch that fills the control byte from its lowest bit
emitCopyLsbFirst(st0, m) ==
    LET st == rotateFlag([st0 EXCEPT
                             !.currentFlag = BitOr(@, Uint8(Shl(1, st0.bitCount))),
                             !.bitCount = @ + 1])
        encodedPairVal == Uint16(BitOr(Shl(m.offset - 1, 4), BitAnd(m.length - 3, 15)))
    IN IF st.err \/ st.outputPos + 1 >= Len(st.buf)
       THEN [st0 EXCEPT !.err = TRUE]
       ELSE [st EXCEPT
                !.buf = [st.buf EXCEPT
                            ![st.outputPos + 1] = BitAnd(encodedPairVal, 255),
                            ![st.outputPos + 2] = BitAnd(Shr(encodedPairVal, 8), 255)],
                !.inputPos = st0.inputPos + m.length,
                !.outputPos = st.outputPos + 2,
                !.tokens = Append(@, [kind |-> "Copy", offset |-> m.offset,
                                      length |-> m.length,
                                      inPos |-> st0.inputPos, outPos |-> st.outputPos,
                                      ctl |-> st0.flagPos, bit |-> 7 - st0.bitCount])]

\* lines 149-172: the position is encoded as a Copy of the match m
emitCopy(st0, m) ==
    LET st == rotateFlag([st0 EXCEPT
                             !.currentFlag = BitOr(@, Uint8(Shl(1, 7 - st0.bitCount))),
                             !.bitCount = @ + 1])
        encodedPairVal == Uint16(BitOr(Shl(m.offset - 1, 4), BitAnd(m.length - 3, 15)))
    IN IF st.err \/ st.outputPos + 1 >= Len(st.buf)
       THEN [st0 EXCEPT !.err = TRUE]
       ELSE [st EXCEPT
                !.buf = [st.buf EXCEPT
                            ![st.outputPos + 1] = BitAnd(encodedPairVal, 255),
                            ![st.outputPos + 2] = BitAnd(Shr(encodedPairVal, 8), 255)],
                !.inputPos = st0.inputPos + m.length,
                !.outputPos = st.outputPos + 2,
                !.tokens = Append(@, [kind |-> "Copy", offset |-> m.offset,
                                      length |-> m.length,
                                      inPos |-> st0.inputPos, outPos |-> st.outputPos,
                                      ctl |-> st0.flagPos, bit |-> 7 - st0.bitCount])]

\* lines 116-172: one iteration of the loop, m being what findMatch returned
loopBody(data, st, m) ==
    IF st.outputPos >= Len(st.buf) THEN [st EXCEPT !.err = TRUE]
    ELSE IF ~m.found THEN emitLiteral(data, st)
    ELSE emitCopy(st, m)

\* line 174: the last control byte is patched
coreEnd(st) == [st EXCEPT !.buf = [st.buf EXCEPT ![st.flagPos + 1] = st.currentFlag]]

\* the locals of the call in progress
loopState ==
    [buf |-> outputBuffer, inputPos |-> inputPos, outputPos |-> outputPos,
     currentFlag |-> currentFlag, bitCount |-> bitCount, flagPos |-> flagPos,
     tokens |-> tokens, err |-> FALSE]

\* the locals become st; the call returns nil, errBufferTooSmall when st.err
SetLocals(st) ==
    IF st.err
    THEN /\ pc' = "compressed"
         /\ compressedStream' = <<>>
         /\ cErr' = "errBufferTooSmall"
         /\ UNCHANGED <<outputBuffer, inputPos, outputPos, currentFlag, bitCount,
                        flagPos, tokens>>
    ELSE /\ pc' = "loop"
         /\ outputBuffer' = st.buf
         /\ inputPos' = st.inputPos
         /\ outputPos' = st.outputPos
         /\ currentFlag' = st.currentFlag
         /\ bitCount' = st.bitCount
         /\ flagPos' = st.flagPos
         /\ tokens' = st.tokens
         /\ UNCHANGED <<compressedStream, cErr>>

\* lines 80-106: an empty input returns the empty stream at once
CompressBegin ==
    /\ pc = "start"
    /\ IF Len(inputData) = 0
       THEN /\ pc' = "compressed"
            /\ compressedStream' = <<>>
            /\ cErr' = "nil"
            /\ UNCHANGED <<outputBuffer, inputPos, outputPos, currentFlag, bitCount,
                           flagPos, tokens>>
       ELSE SetLocals(coreBegin(inputData))
    /\ UNCHANGED <<inputData, hvars, dvars>>

\* the match the loop body looks up at the current position (line 128)
matchAt(data, pos) ==
    findMatch(data, pos, currentWindowSize(pos), currentMaxMatchLen(data, pos))

matchHere == matchAt(inputData, inputPos)

\* one iteration of the loop of lines 108-173 that finds no match
CompressLiteral ==
    /\ pc = "loop"
    /\ inputPos < Len(inputData)
    /\ ~matchHere.found
    /\ SetLocals(loopBody(inputData, loopState, matchHere))
    /\ UNCHANGED <<inputData, hvars, dvars>>

\* one iteration of the loop of lines 108-173 that finds a match
CompressCopy ==
    /\ pc = "loop"
    /\ inputPos < Len(inputData)
    /\ matchHere.found
    /\ SetLocals(loopBody(inputData, loopState, matchHere))
    /\ UNCHANGED <<inputData, hvars, dvars>>

\* lines 174-176: the last control byte is patched and the stream returned
CompressEnd ==
    /\ pc = "loop"
    /\ inputPos >= Len(inputData)
    /\ outputBuffer' = coreEnd(loopState).buf
    /\ compressedStream' = SubSeq(outputBuffer', 1, outputPos)
    /\ cErr' = "nil"
    /\ pc' = "compressed"
    /\ UNCHANGED <<inputData, inputPos, outputPos, currentFlag, bitCount, flagPos,
                   tokens>>
    /\ UNCHANGED <<hvars, dvars>>

(***************************************************************************)
(* Container header (pcmp_compressor.go 29-43, pcmp_decompressor.go 27-44).*)
(* A uint32 is the record [hi, lo] of its two 16-bit halves.               *)
(***************************************************************************)
U32(n) == [hi |-> (n \div 65536) % 65536, lo |-> n % 65536]
U32Gt(a, b) == a.hi > b.hi \/ (a.hi = b.hi /\ a.lo > b.lo)

\* binary.LittleEndian.PutUint32: the four bytes of v, least significant first
\* a variant that writes the most significant byte first
PutUint32BigEndian(v) ==
    <<Uint8(Shr(v.hi, 8)), Uint8(v.hi), Uint8(Shr(v.lo, 8)), Uint8(v.lo)>>

PutUint32(v) ==
    <<Uint8(v.lo), Uint8(Shr(v.lo, 8)), Uint8(v.hi), Uint8(Shr(v.hi, 8))>>

\* binary.LittleEndian.Uint32: the value of four bytes, least significant first
LittleEndianUint32(b) ==
    [hi |-> BitOr(b[3], Shl(b[4], 8)), lo |-> BitOr(b[1], Shl(b[2], 8))]

Signature == <<80, 67, 77, 80>>

writePCMPHeader(totalUncompressedSize, totalCompressedStreamSize) ==
    [i \in 1..pcmpHeaderSize |->
        IF i - 1 < 4 THEN Signature[i]
        ELSE IF i - 1 >= 20 /\ i - 1 < 24 THEN PutUint32(totalUncompressedSize)[i - 20]
        ELSE IF i - 1 >= 24 /\ i - 1 < 28 THEN PutUint32(totalCompressedStreamSize)[i - 24]
        ELSE 0]

readPCMPHeader(buf) ==
    IF Len(buf) < pcmpDataOffset
    THEN [outSize |-> U32(0), compSize |-> U32(0), err |-> "errFileTooShort"]
    ELSE IF SubSeq(buf, 1, 4) # Signature
    THEN [outSize |-> U32(0), compSize |-> U32(0), err |-> "errInvalidSignature"]
    ELSE LET outSize == LittleEndianUint32(SubSeq(buf, 21, 24))
             compSize == LittleEndianUint32(SubSeq(buf, 25, 28))
             remainingDataInFile == U32(Len(buf) - pcmpDataOffset)
         IN [outSize |-> outSize,
             compSize |-> IF compSize = U32(0) \/ U32Gt(compSize, remainingDataInFile)
                          THEN remainingDataInFile
                          ELSE compSize,
             err |-> "nil"]

(***************************************************************************)
(* compressAndPadToPCMP (pcmp_compressor.go 180-217), from the return of   *)
(* its call of coreCompressV1 on.                                          *)
(***************************************************************************)
\* lines 199-213: the zero padding appended to finalOutputData
\* a variant that appends a whole block to an aligned size
padAlways(finalOutputData) ==
    finalOutputData \o Zeros(fileAlignment - (Len(finalOutputData) % fileAlignment))

padToAlignment(finalOutputData) ==
    LET currentSize == Len(finalOutputData)
        remainder == currentSize % fileAlignment
        paddingNeeded == IF remainder # 0 THEN fileAlignment - remainder ELSE 0
    IN IF paddingNeeded > 0
       THEN finalOutputData \o Zeros(paddingNeeded)
       ELSE finalOutputData

PadContainer ==
    /\ pc = "compressed"
    /\ pc' = "padded"
    /\ IF cErr # "nil"
       THEN /\ container' = <<>>
            /\ UNCHANGED <<hdrIn, hdrOut>>
       ELSE LET totalUncompressedSize == U32(Len(inputData))
                totalCompressedStreamSize == U32(Len(compressedStream))
                pcmpHeader == writePCMPHeader(totalUncompressedSize,
                                              totalCompressedStreamSize)
            IN /\ hdrIn' = [u |-> totalUncompressedSize, c |-> totalCompressedStreamSize]
               /\ container' = padToAlignment(pcmpHeader \o compressedStream)
               /\ UNCHANGED hdrOut
    /\ UNCHANGED <<cvars, dvars>>

(***************************************************************************)
(* lzssSimpleDecompress (pcmp_decompressor.go 46-124).                     *)
(***************************************************************************)
\* return nil, e
dFail(e) ==
    /\ pc' = "decoded"
    /\ dErr' = e
    /\ outBuffer' = <<>>
    /\ UNCHANGED <<streamIdx, controlByte, bitsLeft, dTokens>>

\* a break out of the loop: lines 118-123 return outBuffer, nil
dBreak ==
    /\ pc' = "decoded"
    /\ dErr' = "nil"
    /\ UNCHANGED <<outBuffer, streamIdx, controlByte, bitsLeft, dTokens>>

\* lines 46-61, called with (stream, size)
lzssBegin(stream, size) ==
    /\ dStream' = stream
    /\ uncompressedSize' = size
    /\ dTokens' = <<>>
    /\ outBuffer' = <<>>
    /\ IF Len(stream) = 0
       THEN /\ pc' = "decoded"
            /\ dErr' = IF size > 0 THEN "errStreamEmpty" ELSE "nil"
            /\ UNCHANGED <<streamIdx, controlByte, bitsLeft>>
       ELSE /\ pc' = "decoding"
            /\ dErr' = "nil"
            /\ controlByte' = stream[0 + 1]
            /\ streamIdx' = 1
            /\ bitsLeft' = 8

isCopyOperation == BitAnd(controlByte, 128) # 0

\* a variant that leaves the loop when no control byte is left to read
afterBitBreaks ==
    LET cb == Uint8(Shl(controlByte, 1))
        bl == bitsLeft - 1
    IN IF bl # 0
       THEN [controlByte |-> cb, streamIdx |-> streamIdx, bitsLeft |-> bl, stop |-> "no"]
       ELSE IF streamIdx >= Len(dStream)
       THEN [controlByte |-> cb, streamIdx |-> streamIdx, bitsLeft |-> bl,
             stop |-> "break"]
       ELSE [controlByte |-> dStream[streamIdx + 1], streamIdx |-> streamIdx + 1,
             bitsLeft |-> 8, stop |-> "no"]

\* lines 69-82: the control bit is shifted out and, after the eighth, the next
\* control byte is read.  stop is "no", "break" or the error returned.
afterBit ==
    LET cb == Uint8(Shl(controlByte, 1))
        bl == bitsLeft - 1
    IN IF bl # 0
       THEN [controlByte |-> cb, streamIdx |-> streamIdx, bitsLeft |-> bl, stop |-> "no"]
       ELSE IF streamIdx >= Len(dStream)
       THEN [controlByte |-> cb, streamIdx |-> streamIdx, bitsLeft |-> bl,
             stop |-> IF Len(outBuffer) < uncompressedSize
                      THEN "errStreamPrematureEnd"
                      ELSE "break"]
       ELSE [controlByte |-> dStream[streamIdx + 1], streamIdx |-> streamIdx + 1,
             bitsLeft |-> 8, stop |-> "no"]

\* a variant that copies nothing from before the output: an offset equal to the
\* output length gives a zero as well
RECURSIVE copyLoopStrict(_, _, _, _, _)
copyLoopStrict(out, offset, i, count, size) ==
    IF i >= count THEN out
    ELSE IF Len(out) >= size THEN out
    ELSE IF offset >= Len(out)
    THEN copyLoopStrict(Append(out, 0), offset, i + 1, count, size)
    ELSE copyLoopStrict(Append(out, out[Len(out) - offset + 1]), offset, i + 1, count,
                        size)

\* lines 95-104: the bytes of one Copy, i counting from 0
RECURSIVE copyLoop(_, _, _, _, _)
copyLoop(out, offset, i, count, size) ==
    IF i >= count THEN out
    ELSE IF Len(out) >= size THEN out
    ELSE IF offset > Len(out)
    THEN copyLoop(Append(out, 0), offset, i + 1, count, size)
    ELSE copyLoop(Append(out, out[Len(out) - offset + 1]), offset, i + 1, count, size)

\* lines 92-93: the fields of a Copy token's two bytes
copyOffset(byte1, byte2) == BitOr(Shr(byte1, 4), Uint16(Shl(byte2, 4))) + 1
copyCount(byte1) == BitAnd(byte1, 15) + 3

\* one iteration of the loop of lines 63-116 whose control bit is 0
DecodeLiteral ==
    /\ pc = "decoding"
    /\ Len(outBuffer) < uncompressedSize
    /\ ~isCopyOperation
    /\ IF streamIdx > Len(dStream) THEN dFail("errStreamPrematureEnd")
       ELSE IF afterBit.stop = "break" THEN dBreak
       ELSE IF afterBit.stop # "no" THEN dFail(afterBit.stop)
       ELSE IF afterBit.streamIdx >= Len(dStream) THEN dFail("errPrematureEndLiteral")
       ELSE IF Len(outBuffer) >= uncompressedSize THEN dBreak
       ELSE /\ outBuffer' = Append(outBuffer, dStream[afterBit.streamIdx + 1])
            /\ streamIdx' = afterBit.streamIdx + 1
            /\ controlByte' = afterBit.controlByte
            /\ bitsLeft' = afterBit.bitsLeft
            /\ dTokens' = Append(dTokens, [kind |-> "Literal", offset |-> 0, count |-> 1,
                                           at |-> Len(outBuffer)])
            /\ UNCHANGED <<pc, dErr>>
    /\ UNCHANGED <<dStream, uncompressedSize, cvars, hvars>>

\* one iteration of the loop of lines 63-116 whose control bit is 1
DecodeCopy ==
    /\ pc = "decoding"
    /\ Len(outBuffer) < uncompressedSize
    /\ isCopyOperation
    /\ IF streamIdx > Len(dStream) THEN dFail("errStreamPrematureEnd")
       ELSE IF afterBit.stop = "break" THEN dBreak
       ELSE IF afterBit.stop # "no" THEN dFail(afterBit.stop)
       ELSE IF afterBit.streamIdx + 1 >= Len(dStream) THEN dFail("errPrematureEndCopy")
       ELSE LET byte1 == dStream[afterBit.streamIdx + 1]
                byte2 == dStream[afterBit.streamIdx + 2]
                offset == copyOffset(byte1, byte2)
                count == copyCount(byte1)
            IN /\ outBuffer' = copyLoop(outBuffer, offset, 0, count, uncompressedSize)
               /\ streamIdx' = afterBit.streamIdx + 2
               /\ controlByte' = afterBit.controlByte
               /\ bitsLeft' = afterBit.bitsLeft
               /\ dTokens' = Append(dTokens, [kind |-> "Copy", offset |-> offset,
                                              count |-> count, at |-> Len(outBuffer)])
               /\ UNCHANGED <<pc, dErr>>
    /\ UNCHANGED <<dStream, uncompressedSize, cvars, hvars>>

\* the loop condition of line 63 fails: lines 118-123 return outBuffer, nil
DecodeEnd ==
    /\ pc = "decoding"
    /\ Len(outBuffer) >= uncompressedSize
    /\ pc' = "decoded"
    /\ UNCHANGED <<cvars, hvars, dvars>>

(***************************************************************************)
(* The runs.                                                               *)
(***************************************************************************)
\* the stream coreCompressV1 returned is decoded with the input's length
RoundTripDecode ==
    /\ pc = "compressed"
    /\ lzssBegin(compressedStream, Len(inputData))
    /\ UNCHANGED <<cvars, hvars>>

\* the returned stream runs out before the declared size is reached: it is cut
\* to a proper prefix, or the declared size is one more than the input's length
ExhaustedDecode ==
    /\ pc = "compressed"
    /\ cErr = "nil"
    /\ \E k \in 0..Len(compressedStream), more \in {0, 1} :
          /\ ~(k = Len(compressedStream) /\ more = 0)
          /\ lzssBegin(SubSeq(compressedStream, 1, k), Len(inputData) + more)
    /\ UNCHANGED <<cvars, hvars>>

\* a decode is a round trip when it was given the whole returned stream and the
\* input's length
IsRoundTrip == dStream = compressedStream /\ uncompressedSize = Len(inputData)

InitCompressor ==
    /\ outputBuffer = <<>>
    /\ inputPos = 0
    /\ outputPos = 0
    /\ currentFlag = 0
    /\ bitCount = 0
    /\ flagPos = 0
    /\ compressedStream = <<>>
    /\ cErr = "nil"
    /\ tokens = <<>>

InitHeader ==
    /\ container = <<>>
    /\ hdrIn = [u |-> U32(0), c |-> U32(0)]
    /\ hdrOut = [outSize |-> U32(0), compSize |-> U32(0), err |-> "nil"]

InitDecoder ==
    /\ outBuffer = <<>>
    /\ streamIdx = 0
    /\ controlByte = 0
    /\ bitsLeft = 0
    /\ dErr = "nil"
    /\ dTokens = <<>>

InitRun(inputs) ==
    /\ pc = "start"
    /\ inputData \in inputs
    /\ InitCompressor
    /\ InitHeader
    /\ dStream = <<>>
    /\ uncompressedSize = 0
    /\ InitDecoder

\* the compressor run on an input, its stream padded into a container or decoded
NextPipeline ==
    \/ CompressBegin
    \/ CompressLiteral
    \/ CompressCopy
    \/ CompressEnd
    \/ PadContainer
    \/ RoundTripDecode
    \/ DecodeLiteral
    \/ DecodeCopy
    \/ DecodeEnd

(***************************************************************************)
(* Spec: every input over Alphabet of at most MaxLen bytes; its stream is  *)
(* also decoded cut short.                                                 *)
(***************************************************************************)
Init == InitRun(SmallInputs)

Next == NextPipeline \/ ExhaustedDecode

Spec == Init /\ [][Next]_vars

(***************************************************************************)
(* Inputs longer than the window.                                          *)
(***************************************************************************)
Run(b, n) == [i \in 1..n |-> b]

Marker == <<1, 2, 3>>

\* Marker, a run of zeros, Marker again: the second Marker lies maxWindowSize
\* bytes after the first, or one byte more
FarInputs ==
    {Marker \o Run(0, maxWindowSize - 3 + d) \o Marker : d \in {0, 1}}

\* a run of zeros whose stream fills the container to the alignment exactly
AlignedInput == Run(0, 17000)

(***************************************************************************)
(* SpecLong: inputs in which no three consecutive bytes occur twice.  On   *)
(* such an input findMatch finds nothing at any position: an occurrence of *)
(* a pattern of at least minMatchLength bytes in the window would repeat   *)
(* the pattern's first three bytes (DistinctNoMatch and                    *)
(* DistinctNoMatchSampled state it of findMatch).  Every iteration of the  *)
(* loop is therefore the no-match branch, taken here without searching the *)
(* window, and a call of coreCompressV1 is a single step.                  *)
(***************************************************************************)
\* byte i (from 0) of the input: the triples (k div 255, k mod 255, 255), k = 0, 1, ...
NoRepeatByte(i) ==
    LET k == i \div 3
    IN CASE i % 3 = 0 -> k \div 255
         [] i % 3 = 1 -> k % 255
         [] OTHER -> 255

NoRepeat(n) == [i \in 1..n |-> NoRepeatByte(i - 1)]

Distinct3(d) ==
    Len(d) < 3 \/
    Cardinality({d[i] * 65536 + d[i + 1] * 256 + d[i + 2] : i \in 1..(Len(d) - 2)})
        = Len(d) - 2

\* 16384 bytes is the shortest such input the output buffer does not hold
DistinctLens == (0..MaxDistinctLen) \cup {16384}

DistinctInputs == {NoRepeat(n) : n \in DistinctLens}

DistinctInputsAreDistinct == \A d \in DistinctInputs : Distinct3(d)

\* the loop of lines 108-173 run to its end (or to the error); search says
\* whether findMatch is called or, on an input of DistinctInputs, known to find
\* nothing.  loopUpTo runs at most n * 4^k iterations, nested k deep to keep the
\* recursion flat.
RECURSIVE loopUpTo(_, _, _, _, _)
loopUpTo(data, st, k, n, search) ==
    IF n = 0 \/ st.err \/ st.inputPos >= Len(data) THEN st
    ELSE loopUpTo(data,
                  IF k = 0
                  THEN loopBody(data, st,
                                IF search THEN matchAt(data, st.inputPos) ELSE NoMatch)
                  ELSE loopUpTo(data, st, k - 1, 4, search),
                  k, n - 1, search)

RECURSIVE loop(_, _, _)
loop(data, st, search) ==
    IF st.err \/ st.inputPos >= Len(data) THEN st
    ELSE loop(data, loopUpTo(data, st, 7, 4, search), search)

\* a whole call of coreCompressV1 (lines 80-177)
CompressCall(search) ==
    /\ pc = "start"
    /\ pc' = "compressed"
    /\ IF Len(inputData) = 0
       THEN /\ compressedStream' = <<>>
            /\ cErr' = "nil"
            /\ UNCHANGED <<outputBuffer, inputPos, outputPos, currentFlag, bitCount,
                           flagPos, tokens>>
       ELSE \E st \in {loop(inputData, coreBegin(inputData), search)} :
               IF st.err
               THEN /\ compressedStream' = <<>>
                    /\ cErr' = "errBufferTooSmall"
                    /\ UNCHANGED <<outputBuffer, inputPos, outputPos, currentFlag,
                                   bitCount, flagPos, tokens>>
               ELSE /\ outputBuffer' = coreEnd(st).buf
                    /\ compressedStream' = SubSeq(outputBuffer', 1, st.outputPos)
                    /\ cErr' = "nil"
                    /\ inputPos' = st.inputPos
                    /\ outputPos' = st.outputPos
                    /\ currentFlag' = st.currentFlag
                    /\ bitCount' = st.bitCount
                    /\ flagPos' = st.flagPos
                    /\ tokens' = st.tokens
    /\ UNCHANGED <<inputData, hvars, dvars>>

\* the call on an input of DistinctInputs
CompressDistinct ==
    /\ inputData \in DistinctInputs
    /\ CompressCall(FALSE)

InitLong ==
    /\ DistinctInputsAreDistinct
    /\ InitRun(DistinctInputs)

NextLong ==
    \/ CompressDistinct
    \/ PadContainer
    \/ RoundTripDecode
    \/ DecodeLiteral
    \/ DecodeEnd

SpecLong == InitLong /\ [][NextLong]_vars

(***************************************************************************)
(* SpecFar: whole calls of coreCompressV1 on the small inputs and on       *)
(* inputs longer than the window, and the containers of their streams.     *)
(***************************************************************************)
InitFar == InitRun(SmallInputs \cup FarInputs \cup {AlignedInput})

Compress == CompressCall(TRUE)

NextFar == Compress \/ PadContainer

SpecFar == InitFar /\ [][NextFar]_vars


\* on an input without a repeated 3-byte pattern findMatch finds nothing
DistinctNoMatch ==
    (pc = "loop" /\ inputPos < Len(inputData) /\ Distinct3(inputData))
        => ~matchHere.found

\* the same for the long input, at every 2048th position and at the last ones
DistinctNoMatchSampled ==
    \A pos \in {2048 * j - 1 : j \in 1..8} \cup {16380, 16383} :
        ~matchAt(NoRepeat(16384), pos).found

(***************************************************************************)
(* SpecDec: the decompressor given any stream over DecBytes of at most     *)
(* MaxStreamLen bytes and any declared size up to MaxTarget.  As a control *)
(* byte 0 flags literals only, 128 a Copy first, 65 a Copy second and      *)
(* eighth, 16 a Copy fourth; as the first byte of a Copy they give the     *)
(* offsets 1, 9, 5, 2 (plus 16 times the second byte) and the counts       *)
(* 3, 3, 4, 3.                                                             *)
(***************************************************************************)
DecBytes == {0, 16, 65, 128}

GivenStreams == SeqsUpTo(DecBytes, MaxStreamLen)

InitDec ==
    /\ pc = "given"
    /\ inputData = <<>>
    /\ InitCompressor
    /\ InitHeader
    /\ dStream \in GivenStreams
    /\ uncompressedSize \in 0..MaxTarget
    /\ InitDecoder

DecodeGiven ==
    /\ pc = "given"
    /\ lzssBegin(dStream, uncompressedSize)
    /\ UNCHANGED <<cvars, hvars>>

NextDec ==
    \/ DecodeGiven
    \/ DecodeLiteral
    \/ DecodeCopy
    \/ DecodeEnd

SpecDec == InitDec /\ [][NextDec]_vars

(***************************************************************************)
(* SpecHdr: a header is written for two sizes, followed by up to MaxTrail  *)
(* bytes of stream, and read back.                                         *)
(***************************************************************************)
U32Samples ==
    {U32(0), U32(1), U32(2), U32(3), U32(255), U32(256), U32(65535), U32(65536),
     [hi |-> 4660, lo |-> 22136], [hi |-> 32768, lo |-> 0], [hi |-> 65535, lo |-> 65535]}

InitHdr ==
    /\ pc = "header"
    /\ inputData = <<>>
    /\ InitCompressor
    /\ container = <<>>
    /\ hdrIn \in [u : U32Samples, c : U32Samples]
    /\ hdrOut = [outSize |-> U32(0), compSize |-> U32(0), err |-> "nil"]
    /\ dStream = <<>>
    /\ uncompressedSize = 0
    /\ InitDecoder

WriteHeader ==
    /\ pc = "header"
    /\ \E r \in 0..MaxTrail :
          container' = writePCMPHeader(hdrIn.u, hdrIn.c) \o Run(170, r)
    /\ pc' = "written"
    /\ UNCHANGED <<hdrIn, hdrOut, cvars, dvars>>

ReadHeader ==
    /\ pc = "written"
    /\ hdrOut' = readPCMPHeader(container)
    /\ pc' = "read"
    /\ UNCHANGED <<container, hdrIn, cvars, dvars>>

NextHdr == WriteHeader \/ ReadHeader

SpecHdr == InitHdr /\ [][NextHdr]_vars

(***************************************************************************)
(* SpecFile: the compressor's main (pcmp_compressor.go 234-264) writes the *)
(* container of an input, and decompressPCMPFile (pcmp_decompressor.go     *)
(* 126-159) decodes it.  An empty input takes main's own path; the path    *)
(* through compressAndPadToPCMP is taken by every input, the empty one     *)
(* included, as the function may be called on it.                          *)
(***************************************************************************)
\* a variant of main's empty container without the alignment block
bareHeader == writePCMPHeader(U32(0), U32(0))

\* lines 241-243: the header of (0, 0) copied into fileAlignment zero bytes
paddedHeader ==
    LET header == writePCMPHeader(U32(0), U32(0))
    IN [i \in 1..fileAlignment |-> IF i <= Len(header) THEN header[i] ELSE 0]

\* lines 239-250: main on an empty input file
MainEmpty ==
    /\ pc = "start"
    /\ Len(inputData) = 0
    /\ container' = paddedHeader
    /\ pc' = "emptyWritten"
    /\ UNCHANGED <<hdrIn, hdrOut, cvars, dvars>>

\* int(v) of a uint32 (the sizes met here stay below 2^31)
U32ToInt(v) == v.hi * 65536 + v.lo

\* decompressPCMPFile returns nil and the error e
fileFail(e) ==
    /\ pc' = "decoded"
    /\ dErr' = e
    /\ outBuffer' = <<>>
    /\ dStream' = <<>>
    /\ dTokens' = <<>>
    /\ UNCHANGED <<uncompressedSize, streamIdx, controlByte, bitsLeft>>

\* lines 132-153: the header is read, the sizes checked and the stream handed
\* to lzssSimpleDecompress
DecompressFile ==
    /\ pc \in {"padded", "emptyWritten"}
    /\ cErr = "nil"
    /\ LET h == readPCMPHeader(container)
           size == U32ToInt(h.outSize)
           compressedStreamSize == U32ToInt(h.compSize)
       IN /\ hdrOut' = h
          /\ IF h.err # "nil" THEN fileFail(h.err)
             ELSE IF pcmpDataOffset + compressedStreamSize > Len(container)
             THEN fileFail("errStreamExceedsFile")
             ELSE IF compressedStreamSize = 0 /\ size > 0
             THEN fileFail("errZeroStreamSize")
             ELSE IF compressedStreamSize = 0 /\ size = 0
             THEN /\ pc' = "decoded"
                  /\ dErr' = "nil"
                  /\ outBuffer' = <<>>
                  /\ dStream' = <<>>
                  /\ dTokens' = <<>>
                  /\ uncompressedSize' = 0
                  /\ UNCHANGED <<streamIdx, controlByte, bitsLeft>>
             ELSE lzssBegin(SubSeq(container, pcmpDataOffset + 1,
                                   pcmpDataOffset + compressedStreamSize), size)
    /\ UNCHANGED <<container, hdrIn, cvars>>

NextFile ==
    \/ MainEmpty
    \/ Compress
    \/ PadContainer
    \/ DecompressFile
    \/ DecodeLiteral
    \/ DecodeCopy
    \/ DecodeEnd

SpecFile == Init /\ [][NextFile]_vars

(***************************************************************************)
(* Properties.                                                             *)
(***************************************************************************)
Literal == "Literal"
Copy == "Copy"

HasToken == Len(tokens) > 0
LastToken == tokens[Len(tokens)]
TokenKinds == [i \in 1..Len(tokens) |-> tokens[i].kind]

\* where the input cursor stands after token i
CursorAfter(i) == IF i < Len(tokens) THEN tokens[i + 1].inPos ELSE inputPos

\* data[p, p+l) also occurs o bytes earlier, wholly before p
Occurs(data, p, o, l) ==
    /\ o >= l
    /\ o <= p
    /\ \A k \in 1..l : data[p - o + k] = data[p + k]

\* the searchable span and the longest candidate at position p
Span(p) == IF p < 4096 THEN p ELSE 4096
MaxCandidate(data, p) == IF Len(data) - p < 18 THEN Len(data) - p ELSE 18

\* the lengths that have an occurrence inside the span
MatchLens(data, p) ==
    {l \in 3..MaxCandidate(data, p) : \E o \in l..Span(p) : Occurs(data, p, o, l)}

PrematureEndErrors ==
    {"errStreamPrematureEnd", "errPrematureEndCopy", "errPrematureEndLiteral"}

\* a finished decode that was not given the whole stream with the input's length
Exhausted == pc = "decoded" /\ ~IsRoundTrip

TenAs == Run(65, 10)

\* C1: decoding the stream coreCompressV1 returns for X, with len(X) as the
\* declared size, returns exactly X and no error, for every X.
C1_RoundTrip ==
    (pc = "decoded" /\ IsRoundTrip)
        => (cErr = "nil" /\ dErr = "nil" /\ outBuffer = inputData)

\* C2: coreCompressV1 never returns errBufferTooSmall, whatever the input.
C2_NoCapacityError ==
    pc = "compressed" => cErr # "errBufferTooSmall"

\* C3: every token emitted is a Copy with offset in 1..4096 and length in
\* 3..18, its two bytes encoding exactly that pair, after which the input cursor
\* stands its length further, or a Literal that put one input byte into the
\* stream, after which the cursor stands one byte further.
C3_TokenRanges ==
    (pc \in {"loop", "compressed"} /\ cErr = "nil") =>
        \A i \in 1..Len(tokens) :
            LET t == tokens[i]
            IN IF t.kind = Copy
               THEN /\ t.offset \in 1..4096
                    /\ t.length \in 3..18
                    /\ CursorAfter(i) = t.inPos + t.length
                    /\ outputBuffer[t.outPos + 1] + 256 * outputBuffer[t.outPos + 2]
                           = (t.offset - 1) * 16 + (t.length - 3)
               ELSE /\ t.kind = Literal
                    /\ CursorAfter(i) = t.inPos + 1
                    /\ outputBuffer[t.outPos + 1] = inputData[t.inPos + 1]

\* a Copy reaching back the whole window, the cursor moved by its length
C3_Witness ==
    /\ pc = "compressed"
    /\ cErr = "nil"
    /\ \E i \in 1..Len(tokens) :
          /\ tokens[i].kind = Copy
          /\ tokens[i].offset = 4096
          /\ tokens[i].length = 3
          /\ CursorAfter(i) = tokens[i].inPos + 3

\* C4 as stated: ten bytes 0x41 give three Literals and one Copy (offset 1,
\* length 7), a stream of 6 bytes, and decode back to the ten bytes.
C4_Original ==
    /\ (inputData = TenAs /\ pc = "compressed") =>
          /\ TokenKinds = <<Literal, Literal, Literal, Copy>>
          /\ tokens[4].offset = 1
          /\ tokens[4].length = 7
          /\ Len(compressedStream) = 6
    /\ (inputData = TenAs /\ pc = "decoded" /\ IsRoundTrip) =>
          (dErr = "nil" /\ outBuffer = TenAs)

\* C4 amended: ten bytes 0x41 give three Literals and two Copies, (offset 3,
\* length 3) and (offset 4, length 4), the stream 18 41 41 41 20 00 31 00 of
\* 8 bytes, and decode back to the ten bytes.
C4_Amended ==
    /\ (inputData = TenAs /\ pc = "compressed") =>
          /\ TokenKinds = <<Literal, Literal, Literal, Copy, Copy>>
          /\ tokens[4].offset = 3
          /\ tokens[4].length = 3
          /\ tokens[5].offset = 4
          /\ tokens[5].length = 4
          /\ compressedStream = <<24, 65, 65, 65, 32, 0, 49, 0>>
    /\ (inputData = TenAs /\ pc = "decoded" /\ IsRoundTrip) =>
          (dErr = "nil" /\ outBuffer = TenAs)

C4_Witness ==
    /\ inputData = TenAs
    /\ pc = "decoded"
    /\ IsRoundTrip
    /\ Len(dStream) = 8
    /\ outBuffer = TenAs

\* C5 as stated: reading the 32 bytes written for (u, c) returns (u, c) and no
\* error.
C5_Original ==
    (pc = "read" /\ Len(container) = 32) =>
        hdrOut = [outSize |-> hdrIn.u, compSize |-> hdrIn.c, err |-> "nil"]

\* C5 amended: reading the header written for (u, c), followed by r bytes,
\* returns no error, u, and c when 1 <= c <= r but r otherwise; on the bare 32
\* bytes that is (u, 0).
C5_Amended ==
    pc = "read" =>
        LET r == U32(Len(container) - 32)
        IN /\ hdrOut.err = "nil"
           /\ hdrOut.outSize = hdrIn.u
           /\ hdrOut.compSize =
                  IF hdrIn.c = U32(0) \/ U32Gt(hdrIn.c, r) THEN r ELSE hdrIn.c
           /\ Len(container) = 32 => hdrOut.compSize = U32(0)

C5_Witness ==
    /\ pc = "read"
    /\ Len(container) = 32
    /\ hdrIn.c = [hi |-> 4660, lo |-> 22136]
    /\ hdrIn.u = [hi |-> 65535, lo |-> 65535]
    /\ hdrOut.outSize = hdrIn.u
    /\ hdrOut.compSize = U32(0)

\* C6 as stated: a stream that runs out before the declared size is reached
\* gives one of the three premature-end errors and no output; a decode that
\* succeeds has produced the declared size.
C6_Original ==
    /\ Exhausted => (dErr \in PrematureEndErrors /\ outBuffer = <<>>)
    /\ (pc = "decoded" /\ dErr = "nil") => Len(outBuffer) = uncompressedSize

\* C6 amended: such a stream gives no output and errStreamEmpty when it has no
\* bytes at all, one of the three premature-end errors otherwise; a decode that
\* succeeds has produced the declared size.
C6_Amended ==
    /\ Exhausted =>
          /\ outBuffer = <<>>
          /\ IF Len(dStream) = 0
             THEN dErr = "errStreamEmpty"
             ELSE dErr \in PrematureEndErrors
    /\ (pc = "decoded" /\ dErr = "nil") => Len(outBuffer) = uncompressedSize

\* a stream cut where the next control byte should be
C6_Witness ==
    /\ Exhausted
    /\ Len(dStream) > 0
    /\ Len(dStream) < Len(compressedStream)
    /\ dErr = "errStreamPrematureEnd"
    /\ outBuffer = <<>>

\* C7: a returned container is the 32 header bytes, the stream, and zero bytes
\* up to the least multiple of 2048 that holds them: 2048 - remainder of them
\* when the remainder of (32 + stream length) is not zero, none when it is.
C7_Alignment ==
    (pc = "padded" /\ cErr = "nil") =>
        LET size == 32 + Len(compressedStream)
            remainder == size % 2048
            padding == Len(container) - size
        IN /\ Len(container) % 2048 = 0
           /\ padding = IF remainder = 0 THEN 0 ELSE 2048 - remainder
           /\ Len(container) >= size
           /\ Len(container) - 2048 < size
           /\ SubSeq(container, 1, 4) = <<80, 67, 77, 80>>
           /\ SubSeq(container, 33, size) = compressedStream
           /\ \A i \in (size + 1)..Len(container) : container[i] = 0

\* a stream that ends on the alignment: nothing is appended
C7_Witness ==
    /\ pc = "padded"
    /\ cErr = "nil"
    /\ Len(compressedStream) = 2016
    /\ Len(container) = 2048

\* the match m is what the span before position p calls for: found exactly when
\* some length has an occurrence, of the largest such length and, for that
\* length, at the smallest offset
Agrees(data, p, m) ==
    LET lens == MatchLens(data, p)
    IN /\ m.found <=> lens # {}
       /\ m.found =>
             /\ m.length \in lens
             /\ \A l \in lens : l <= m.length
             /\ m.offset <= Span(p)
             /\ Occurs(data, p, m.offset, m.length)
             /\ \A o \in m.length..(m.offset - 1) : ~Occurs(data, p, o, m.length)

C9_LargestOffset ==
    (HasToken /\ pc \in {"loop", "compressed"} /\ LastToken.kind = Copy) =>
        LET t == LastToken
            p == t.inPos
        IN /\ \A l \in MatchLens(inputData, p) : l <= t.length
           /\ \A o \in (t.offset + 1)..Span(p) : ~Occurs(inputData, p, o, t.length)

\* the bytes a decoded Copy token produced
Produced(t) ==
    IF t.at + t.count <= uncompressedSize THEN t.count ELSE uncompressedSize - t.at

\* C10: each byte of a decoded Copy is zero when the offset exceeds the output
\* length at the moment the byte is produced, and the byte offset places back
\* otherwise; no error comes of it.
C10_ZeroFill ==
    (pc = "decoding" \/ (pc = "decoded" /\ dErr = "nil")) =>
        \A i \in 1..Len(dTokens) :
            LET t == dTokens[i]
            IN t.kind = Copy =>
                  /\ Len(outBuffer) >= t.at + Produced(t)
                  /\ i = Len(dTokens) => Len(outBuffer) = t.at + Produced(t)
                  /\ \A k \in 0..(Produced(t) - 1) :
                        outBuffer[t.at + k + 1] =
                            IF t.offset > t.at + k
                            THEN 0
                            ELSE outBuffer[t.at + k + 1 - t.offset]

\* a Copy after a non-zero literal whose first byte is zero-filled and whose
\* later bytes are copied
C10_Witness ==
    /\ pc = "decoded"
    /\ dErr = "nil"
    /\ \E i \in 1..Len(dTokens) :
          /\ dTokens[i].kind = Copy
          /\ dTokens[i].at = 1
          /\ dTokens[i].offset = 2
          /\ Produced(dTokens[i]) = 3
          /\ outBuffer[1] # 0
          /\ outBuffer[2] = 0
          /\ outBuffer[3] = outBuffer[1]

\* a container of the empty input, as written by either path
EmptyContainerWritten ==
    \/ pc = "emptyWritten"
    \/ (pc = "padded" /\ cErr = "nil" /\ Len(inputData) = 0)

\* C11: the container of an empty input, by compressAndPadToPCMP and by main's
\* empty-file path alike, is 2048 bytes: "PCMP", the two size fields zero and
\* every byte from offset 32 on zero; decompressPCMPFile on it returns an empty
\* output and no error.
C11_EmptyContainer ==
    /\ EmptyContainerWritten =>
          /\ Len(container) = 2048
          /\ SubSeq(container, 1, 4) = <<80, 67, 77, 80>>
          /\ \A i \in 21..28 : container[i] = 0
          /\ \A i \in 33..Len(container) : container[i] = 0
    /\ (pc = "decoded" /\ Len(inputData) = 0) =>
          (dErr = "nil" /\ outBuffer = <<>> /\ hdrOut.err = "nil")

\* the 2048-byte container of the empty input has been decoded: the 2016 bytes
\* after the header were taken as the stream, with nothing to produce
C11_Witness ==
    /\ pc = "decoded"
    /\ Len(inputData) = 0
    /\ Len(container) = 2048
    /\ hdrOut.compSize = U32(2016)
    /\ Len(dStream) = 2016
    /\ dErr = "nil"
    /\ outBuffer = <<>>

\* the payload bytes of token i, and its place (from 1) in its group of 8
PayloadSize(i) == IF tokens[i].kind = Copy THEN 2 ELSE 1
PlaceInGroup(i) == (i - 1) % 8

\* the positions of the control bytes of the stream
CtlPositions == {tokens[i].ctl : i \in 1..Len(tokens)} \cup {flagPos}

\* bit b of the byte v
BitOf(v, b) == (v \div (2 ^ b)) % 2

\* the control byte at position c is the bits of the Copy tokens it flags, the
\* other bits zero
CtlPatched(c) ==
    \A b \in 0..7 :
        BitOf(compressedStream[c + 1], b) = 1 <=>
            \E i \in 1..Len(tokens) :
                tokens[i].ctl = c /\ tokens[i].bit = b /\ tokens[i].kind = Copy

\* the k-th token of a group is flagged by bit 7 - k of the group's control byte
FlagBits ==
    \A i \in 1..Len(tokens) :
        /\ tokens[i].bit = 7 - PlaceInGroup(i)
        /\ tokens[i].ctl \in 0..(Len(compressedStream) - 1)
        /\ i > 1 => (tokens[i].ctl = tokens[i - 1].ctl <=> PlaceInGroup(i) # 0)

\* a returned stream of at least one token
StreamReturned == pc = "compressed" /\ cErr = "nil" /\ Len(tokens) > 0

\* C12 as stated: the payloads of the tokens a control byte flags lie between
\* it and the next control byte, with one control byte per group of up to 8
\* tokens; token k of a group is flagged by bit 7 - k, 1 for a Copy and 0 for a
\* Literal, and the last control byte holds its accumulated bits.
C12_Original ==
    StreamReturned =>
        /\ FlagBits
        /\ \A c \in CtlPositions : CtlPatched(c)
        /\ \A i \in 1..Len(tokens) :
              /\ tokens[i].ctl < tokens[i].outPos
              /\ \A c \in CtlPositions :
                    c > tokens[i].ctl => tokens[i].outPos + PayloadSize(i) <= c
        /\ Cardinality(CtlPositions) = (Len(tokens) + 7) \div 8

\* C12 amended: token k of a group is flagged by bit 7 - k of the group's
\* control byte, 1 for a Copy (2 payload bytes) and 0 for a Literal (1 payload
\* byte).  The first control byte opens the stream and the payloads follow one
\* another, except that the next group's control byte is written just before
\* the payload of the eighth token of a group; a stream of n tokens so holds
\* n div 8 + 1 control bytes, and each, the last included, holds exactly the
\* bits of the tokens it flags.
C12_Amended ==
    StreamReturned =>
        /\ FlagBits
        /\ \A c \in CtlPositions : CtlPatched(c)
        /\ tokens[1].ctl = 0
        /\ tokens[1].outPos = 1
        /\ \A i \in 2..Len(tokens) :
              /\ tokens[i].outPos =
                     tokens[i - 1].outPos + PayloadSize(i - 1)
                         + (IF PlaceInGroup(i) = 7 THEN 1 ELSE 0)
              /\ PlaceInGroup(i) = 7 =>
                     /\ tokens[i].outPos - 1 \in CtlPositions
                     /\ tokens[i].outPos - 1 > tokens[i].ctl
                     /\ i < Len(tokens) => tokens[i + 1].ctl = tokens[i].outPos - 1
                     /\ i = Len(tokens) => flagPos = tokens[i].outPos - 1
        /\ Len(compressedStream) =
               tokens[Len(tokens)].outPos + PayloadSize(Len(tokens))
        /\ Cardinality(CtlPositions) = Len(tokens) \div 8 + 1

\* a Copy that is the eighth of its group, its payload right after the control
\* byte of the group that follows
C12_Witness ==
    /\ StreamReturned
    /\ \E i \in 1..(Len(tokens) - 1) :
          /\ PlaceInGroup(i) = 7
          /\ tokens[i].kind = Copy
          /\ tokens[i + 1].ctl = tokens[i].outPos - 1
          /\ tokens[i + 1].ctl > tokens[i].ctl

====
